---- MODULE Spec2Model ----
(***************************************************************************)
(* Session-boundary resolution and session-windowed extraction /           *)
(* aggregation of PatternStatistics-TradingBot:                            *)
(*   src/core/trading_sessions.py   SessionDefinition,                     *)
(*                                  get_utc_session_boundaries_for_date    *)
(*   src/analysis/session_analyzer.py  SessionAnalyzer                     *)
(*   src/core/data_manager.py       DataManager.get_data and its cache     *)
(*                                                                         *)
(* Time is counted in ticks of half an hour.  An instant is the number of  *)
(* ticks since 00:00 UTC of date 0; a naive (wall-clock) datetime is the   *)
(* number of ticks since 00:00 of date 0 on the local clock; a date is an  *)
(* integer number of days.  Every exchange zone of the model changes its   *)
(* UTC offset at most once, on local date 1.                               *)
(***************************************************************************)
EXTENDS Integers, Sequences, FiniteSets, TLC

VARIABLES
    session_def,          \* the SessionDefinition handed to the analyzer
    source_data,          \* what data_manager.get_data returns: rows with raw index
    index_tz,             \* tz of the raw index: "naive", "UTC" or a zone name
    start_date,           \* start_date_dt.date()
    end_date,             \* end_date_dt.date()
    market_data,          \* the series after UTC normalisation of its index
    current_date,         \* loop variable of get_session_data / resolver argument
    boundaries,           \* outcome of the last get_utc_session_boundaries_for_date
    all_session_candles,  \* list of per-date slices
    visited,              \* dates the while loop has gone through, in order
    result_df,            \* what get_session_data returns
    report,               \* what get_daily_session_analysis returns
    raised,               \* TRUE when an exception escaped to the caller
    session_details,      \* what analyze_session_details returned for a slice
    cache,                \* the parquet file of the request in cache_dir
    run,                  \* 1 during the first call of the report builder, then 2
    first_run,            \* result and report of the first call, once it is over
    constructor_args,     \* the arguments SessionDefinition(...) was called with
    last_call,            \* the last call of DataManager.get_data and its outcome
    pc                    \* position in the call

vars == <<session_def, source_data, index_tz, start_date, end_date, market_data,
          current_date, boundaries, all_session_candles, visited, result_df,
          report, raised, session_details, cache, run, first_run,
          constructor_args, last_call, pc>>

----------------------------------------------------------------------------
(* Bounds and units *)

\* ticks in timedelta(days=1): 24 hours of two half-hour ticks
DayLen == 48

\* dates of the model are 0..MaxDate
MaxDate == 3

\* candles in the longest input series
MaxRows == 96

\* candles in the longest slice handed to analyze_session_details on its own
MaxSlice == 3

TicksPerHour == DayLen \div 24

H(h) == h * TicksPerHour

HM(h, m) == h * TicksPerHour + (m * TicksPerHour) \div 60

Dates == 0..MaxDate

TimesOfDay == 0..(DayLen - 1)

Abs(x) == IF x < 0 THEN -x ELSE x

----------------------------------------------------------------------------
(* The timezone database: pytz zones as transition tables *)

BeginningOfTime == 0 - DayLen * DayLen

\* a zone whose offset never changes in the modelled period
FixedZone(off, static) ==
    [static |-> static,
     utc_transition_times |-> <<BeginningOfTime>>,
     transition_info |-> <<off>>]

\* a zone whose offset changes from off0 to off1 at UTC instant at
DstZone(off0, at, off1) ==
    [static |-> FALSE,
     utc_transition_times |-> <<BeginningOfTime, at>>,
     transition_info |-> <<off0, off1>>]

ZoneNames == {"UTC", "Asia/Tokyo", "Europe/Berlin", "Europe/London",
              "America/New_York", "Australia/Sydney", "America/Havana"}

\* pytz.timezone(name).  Berlin, New York and Havana turn the clocks forward,
\* London and Sydney turn them back; each at its real local time of day
\* (Havana at local midnight).
Timezone(name) ==
    CASE name = "UTC"              -> FixedZone(0, TRUE)
      [] name = "Asia/Tokyo"       -> FixedZone(H(9), FALSE)
      [] name = "Europe/Berlin"    -> DstZone(H(1), DayLen + H(1), H(2))
      [] name = "Europe/London"    -> DstZone(H(1), DayLen + H(1), 0)
      [] name = "America/New_York" -> DstZone(0 - H(5), DayLen + H(7), 0 - H(4))
      [] name = "Australia/Sydney" -> DstZone(H(11), H(16), H(10))
      [] name = "America/Havana"   -> DstZone(0 - H(5), DayLen + H(5), 0 - H(4))

\* max(0, bisect_right(_utc_transition_times, t) - 1), 1-based
TransitionIndex(tz, t) ==
    LET hits == {i \in 1..Len(tz.utc_transition_times) :
                    tz.utc_transition_times[i] <= t}
    IN IF hits = {} THEN 1 ELSE CHOOSE i \in hits : \A j \in hits : j <= i

\* the UTC offset the zone applies at UTC instant u (tzinfo.fromutc)
UtcOffsetAt(tz, u) == tz.transition_info[TransitionIndex(tz, u)]

\* tzinfo.normalize(dt.replace(tzinfo=off)): reread the instant on the zone's clock
Normalize(tz, naive, off) ==
    LET u == naive - off
    IN [wall |-> u + UtcOffsetAt(tz, u), utcoffset |-> UtcOffsetAt(tz, u)]

\* tz.localize(naive, is_dst=None) with a guessed offset instead of an error
LocalizeGuess(tz, naive) ==
    [kind |-> "ok", wall |-> naive,
     utcoffset |-> tz.transition_info[TransitionIndex(tz, naive - DayLen)]]

\* tz.localize(naive) that applies the zone's first offset whatever the date
LocalizeFirstOffset(tz, naive) ==
    [kind |-> "ok", wall |-> naive, utcoffset |-> tz.transition_info[1]]

\* tz.localize(naive, is_dst=None): an aware datetime, or the error raised
Localize(tz, naive) ==
    IF tz.static
    THEN [kind |-> "ok", wall |-> naive, utcoffset |-> tz.transition_info[1]]
    ELSE LET Candidate(delta) ==
                 LET off == tz.transition_info[TransitionIndex(tz, naive + delta)]
                     loc == Normalize(tz, naive, off)
                 IN IF loc.wall = naive THEN {loc} ELSE {}
             possible_loc_dt == Candidate(0 - DayLen) \cup Candidate(DayLen)
         IN IF Cardinality(possible_loc_dt) = 1
            THEN LET loc == CHOOSE l \in possible_loc_dt : TRUE
                 IN [kind |-> "ok", wall |-> loc.wall, utcoffset |-> loc.utcoffset]
            ELSE IF possible_loc_dt = {}
            THEN [kind |-> "NonExistentTimeError", wall |-> naive, utcoffset |-> 0]
            ELSE [kind |-> "AmbiguousTimeError", wall |-> naive, utcoffset |-> 0]

\* the conversion with the offset applied in the wrong direction
AsUtcWrongSign(aware) == aware.wall + aware.utcoffset

\* aware.astimezone(pytz.utc)
AsUtc(aware) == aware.wall - aware.utcoffset

----------------------------------------------------------------------------
(* SessionDefinition and the resolver *)

SessionDefinition(name, zone, s, e) ==
    [name |-> name, exchange_timezone |-> zone,
     local_start_time |-> s, local_end_time |-> e]

\* datetime.combine(date, time)
Combine(d, t) == d * DayLen + t

\* the calendar date of a UTC timestamp (DatetimeIndex.date)
UtcDate(u) == u \div DayLen

\* the crossing test taken with <= instead of <
CrossesMidnightOrEqual(sd) == sd.local_end_time <= sd.local_start_time

\* session_def.local_end_time < session_def.local_start_time
CrossesMidnight(sd) == sd.local_end_time < sd.local_start_time

local_start_dt_naive(sd, target_date) == Combine(target_date, sd.local_start_time)

\* the end anchored to target_date even when the session crosses midnight
local_end_dt_naive_same_day(sd, target_date) ==
    Combine(target_date, sd.local_end_time)

\* the end anchored to the day after target_date for every session
local_end_dt_naive_next_day(sd, target_date) ==
    Combine(target_date + 1, sd.local_end_time)

local_end_dt_naive(sd, target_date) ==
    IF CrossesMidnight(sd)
    THEN Combine(target_date + 1, sd.local_end_time)
    ELSE Combine(target_date, sd.local_end_time)

\* the outcome of the call: the UTC pair, or the exception it raises
get_utc_session_boundaries_for_date(sd, target_date) ==
    LET tz == Timezone(sd.exchange_timezone)
        local_start_dt == Localize(tz, local_start_dt_naive(sd, target_date))
        local_end_dt == Localize(tz, local_end_dt_naive(sd, target_date))
    IN IF local_start_dt.kind # "ok"
       THEN [kind |-> local_start_dt.kind, start_utc |-> 0, end_utc |-> 0]
       ELSE IF local_end_dt.kind # "ok"
       THEN [kind |-> local_end_dt.kind, start_utc |-> 0, end_utc |-> 0]
       ELSE [kind |-> "ok",
             start_utc |-> AsUtc(local_start_dt),
             end_utc |-> AsUtc(local_end_dt)]

NoBoundaries == [kind |-> "none", start_utc |-> 0, end_utc |-> 0]

\* None, as analyze_session_details returns it
NoAnalysis == [none |-> TRUE]

\* no cache file for the request
NoCache == [exists |-> FALSE]

\* no call of the report builder has returned yet
NoRun == [over |-> FALSE]

\* get_data has not been called yet
NoCall == [made |-> FALSE]

----------------------------------------------------------------------------
(* The resolver called on its own: any session definition, any date *)

AllSessionDefs ==
    {SessionDefinition("any", z, s, e) : z \in ZoneNames, s \in TimesOfDay, e \in TimesOfDay}

InitResolve ==
    /\ session_def \in AllSessionDefs
    /\ source_data = <<>>
    /\ index_tz = "UTC"
    /\ start_date = 0
    /\ end_date = 0
    /\ market_data = <<>>
    /\ current_date = 0
    /\ boundaries = NoBoundaries
    /\ all_session_candles = <<>>
    /\ visited = <<>>
    /\ result_df = <<>>
    /\ report = <<>>
    /\ raised = FALSE
    /\ session_details = NoAnalysis
    /\ cache = NoCache
    /\ run = 1
    /\ first_run = NoRun
    /\ constructor_args = session_def
    /\ last_call = NoCall
    /\ pc = "resolver"

Resolve ==
    /\ pc = "resolver"
    /\ \E d \in Dates :
          /\ current_date' = d
          /\ boundaries' = get_utc_session_boundaries_for_date(session_def, d)
    /\ UNCHANGED <<session_def, source_data, index_tz, start_date, end_date,
                   market_data, all_session_candles, visited, result_df, report,
                   raised, pc,
                   session_details, cache, run, first_run,
                   constructor_args, last_call>>

NextResolve == Resolve

SpecResolve == InitResolve /\ [][NextResolve]_vars

----------------------------------------------------------------------------
(* The input series *)

\* candle k of a feed: prices rise, stall and fall along the feed
PricePattern == <<10, 12, 12, 9, 11, 11, 8>>

PriceAt(k) == PricePattern[(k % Len(PricePattern)) + 1]

Max2(a, b) == IF a >= b THEN a ELSE b

Min2(a, b) == IF a <= b THEN a ELSE b

\* the k-th candle (k = 0, 1, ...) of a feed that starts at instant first
\* with one candle every step ticks, its index expressed in index zone iz
Candle(first, step, k, iz) ==
    LET u == first + k * step
        off == IF iz \in {"naive", "UTC"} THEN 0 ELSE UtcOffsetAt(Timezone(iz), u)
    IN [wall |-> u + off, utcoffset |-> off,
        Open |-> PriceAt(k), Close |-> PriceAt(k + 1),
        High |-> Max2(PriceAt(k), PriceAt(k + 1)) + (k % 2),
        Low |-> Min2(PriceAt(k), PriceAt(k + 1)) - (k % 3),
        Volume |-> 1 + (k % 4)]

\* a feed of n candles in chronological order, or latest first
Feed(first, step, n, iz, ascending) ==
    [i \in 1..n |-> Candle(first, step, IF ascending THEN i - 1 ELSE n - i, iz)]

\* index.tz_localize('UTC') of a naive index
TzLocalizeUtc(row) ==
    [ts |-> row.wall, Open |-> row.Open, High |-> row.High, Low |-> row.Low,
     Close |-> row.Close, Volume |-> row.Volume]

\* an aware index stripped of its zone, the wall-clock readings kept
TzConvertUtcKeepsWall(row) ==
    [ts |-> row.wall, Open |-> row.Open, High |-> row.High,
     Low |-> row.Low, Close |-> row.Close, Volume |-> row.Volume]

\* index.tz_convert(pytz.UTC) of an aware index (the identity on a UTC index)
TzConvertUtc(row) ==
    [ts |-> row.wall - row.utcoffset, Open |-> row.Open, High |-> row.High,
     Low |-> row.Low, Close |-> row.Close, Volume |-> row.Volume]

\* the index normalisation of get_session_data
NormalizeIndex(data, iz) ==
    [i \in 1..Len(data) |->
        IF iz = "naive" THEN TzLocalizeUtc(data[i]) ELSE TzConvertUtc(data[i])]

----------------------------------------------------------------------------
(* DataManager.get_data: the parquet cache in front of the data source *)

\* a frame as get_data hands it over: the rows and the tz of their index
Frame(rows, iz) == [rows |-> rows, index_tz |-> iz]

\* data.to_parquet(cache_filepath): the index is written as instants, with
\* the name of its zone when it has one
ToParquet(data) ==
    [exists |-> TRUE, index_tz |-> data.index_tz,
     rows |-> [i \in 1..Len(data.rows) |->
                  [instant |-> data.rows[i].wall - data.rows[i].utcoffset,
                   Open |-> data.rows[i].Open, High |-> data.rows[i].High,
                   Low |-> data.rows[i].Low, Close |-> data.rows[i].Close,
                   Volume |-> data.rows[i].Volume]]]

\* a read that gives back the wall-clock index without its zone
ReadParquetWithoutZone(file) ==
    LET OffsetOf(u) == IF file.index_tz \in {"naive", "UTC"} THEN 0
                       ELSE UtcOffsetAt(Timezone(file.index_tz), u)
    IN Frame([i \in 1..Len(file.rows) |->
                 [wall |-> file.rows[i].instant + OffsetOf(file.rows[i].instant),
                  utcoffset |-> 0,
                  Open |-> file.rows[i].Open, High |-> file.rows[i].High,
                  Low |-> file.rows[i].Low, Close |-> file.rows[i].Close,
                  Volume |-> file.rows[i].Volume]],
             "naive")

\* pd.read_parquet(cache_filepath): the instants read on the clock of the
\* zone stored with the index
ReadParquet(file) ==
    LET OffsetOf(u) == IF file.index_tz \in {"naive", "UTC"} THEN 0
                       ELSE UtcOffsetAt(Timezone(file.index_tz), u)
    IN Frame([i \in 1..Len(file.rows) |->
                 [wall |-> file.rows[i].instant + OffsetOf(file.rows[i].instant),
                  utcoffset |-> OffsetOf(file.rows[i].instant),
                  Open |-> file.rows[i].Open, High |-> file.rows[i].High,
                  Low |-> file.rows[i].Low, Close |-> file.rows[i].Close,
                  Volume |-> file.rows[i].Volume]],
             file.index_tz)

\* _fetch_and_cache that writes whatever it has fetched
fetch_and_cache_unconditionally(file, fetched, write_ok) ==
    [data |-> fetched,
     cache |-> IF write_ok THEN ToParquet(fetched) ELSE file,
     called_source |-> TRUE]

\* _fetch_and_cache: the frame of the data source, written to the cache file
\* unless it is empty; when to_parquet raises (write_ok false) the error is
\* logged and the file is left as it was
fetch_and_cache(file, fetched, write_ok) ==
    [data |-> fetched,
     cache |-> IF fetched.rows # <<>> /\ write_ok THEN ToParquet(fetched) ELSE file,
     called_source |-> TRUE]

\* get_data that looks into the cache whatever force_refresh says
get_data_ignoring_force_refresh(file, fetched, force_refresh, refetch, write_ok) ==
    IF file.exists
    THEN IF refetch
         THEN fetch_and_cache(file, fetched, write_ok)
         ELSE [data |-> ReadParquet(file), cache |-> file, called_source |-> FALSE]
    ELSE fetch_and_cache(file, fetched, write_ok)

\* get_data: the cached frame when force_refresh is off and there is a file,
\* unless it is a stale daily file or cannot be read (refetch); else the
\* frame of the data source
get_data(file, fetched, force_refresh, refetch, write_ok) ==
    IF ~force_refresh /\ file.exists
    THEN IF refetch
         THEN fetch_and_cache(file, fetched, write_ok)
         ELSE [data |-> ReadParquet(file), cache |-> file, called_source |-> FALSE]
    ELSE fetch_and_cache(file, fetched, write_ok)

----------------------------------------------------------------------------
(* SessionAnalyzer.get_session_data *)

InWindowExclusiveEnd(row, session_start_utc, session_end_utc) ==
    row.ts >= session_start_utc /\ row.ts < session_end_utc

\* (market_data.index >= session_start_utc) & (market_data.index <= session_end_utc)
InWindow(row, session_start_utc, session_end_utc) ==
    row.ts >= session_start_utc /\ row.ts <= session_end_utc

\* market_data[mask]: the rows of the mask, in the order of market_data
FilterRows(data, session_start_utc, session_end_utc) ==
    SelectSeq(data, LAMBDA row : InWindow(row, session_start_utc, session_end_utc))

\* the loop body with a handler that lets the resolver's exception escape
ProcessDateOrRaise(candles, data, sd, d) ==
    LET b == get_utc_session_boundaries_for_date(sd, d)
        daily_market_data == FilterRows(data, b.start_utc, b.end_utc)
    IN IF b.kind = "ok"
       THEN [candles |-> IF daily_market_data # <<>>
                         THEN Append(candles, daily_market_data) ELSE candles,
             escaped |-> FALSE]
       ELSE [candles |-> candles, escaped |-> TRUE]

\* the body of the while loop for one date: the try block and its handlers
ProcessDate(candles, data, sd, d) ==
    LET b == get_utc_session_boundaries_for_date(sd, d)
        daily_market_data == FilterRows(data, b.start_utc, b.end_utc)
    IN IF b.kind = "ok"
       THEN [candles |-> IF daily_market_data # <<>>
                         THEN Append(candles, daily_market_data) ELSE candles,
             escaped |-> FALSE]
       ELSE [candles |-> candles, escaped |-> FALSE]

RECURSIVE Concat(_)
\* pd.concat(all_session_candles)
Concat(frames) ==
    IF frames = <<>> THEN <<>> ELSE Head(frames) \o Concat(Tail(frames))

IsSortedByTs(df) == \A i \in 1..(Len(df) - 1) : df[i].ts <= df[i + 1].ts

RECURSIVE InsertByTs(_, _)
InsertByTs(sorted, row) ==
    IF sorted = <<>> THEN <<row>>
    ELSE IF sorted[Len(sorted)].ts <= row.ts THEN Append(sorted, row)
    ELSE Append(InsertByTs(SubSeq(sorted, 1, Len(sorted) - 1), row), sorted[Len(sorted)])

RECURSIVE SortFrom(_, _, _)
SortFrom(df, i, acc) ==
    IF i > Len(df) THEN acc ELSE SortFrom(df, i + 1, InsertByTs(acc, df[i]))

\* the concatenated slices returned as they are
SortIndexNone(df) == df

\* result_df.sort_index(): ascending by timestamp, ties in their given order
SortIndex(df) == IF IsSortedByTs(df) THEN df ELSE SortFrom(df, 1, <<>>)

\* the end of get_session_data without its check for an empty list:
\* pd.concat of no frames raises ValueError
CollectResultUnchecked(candles) ==
    IF candles = <<>>
    THEN [df |-> <<>>, escaped |-> TRUE]
    ELSE [df |-> SortIndex(Concat(candles)), escaped |-> FALSE]

\* the end of get_session_data: an empty frame when no slice was collected,
\* else the slices concatenated and sorted
CollectResult(candles) ==
    IF candles = <<>>
    THEN [df |-> <<>>, escaped |-> FALSE]
    ELSE [df |-> SortIndex(Concat(candles)), escaped |-> FALSE]

----------------------------------------------------------------------------
(* SessionAnalyzer.analyze_session_details and get_daily_session_analysis *)

\* the high of the first row taken for the high of the slice
MaxHighFirstRow(rows) == rows[1].High

RECURSIVE MaxHigh(_)
\* session_data['High'].max()
MaxHigh(rows) ==
    IF Len(rows) = 1 THEN rows[1].High ELSE Max2(rows[1].High, MaxHigh(Tail(rows)))

RECURSIVE MinLow(_)
\* session_data['Low'].min()
MinLow(rows) ==
    IF Len(rows) = 1 THEN rows[1].Low ELSE Min2(rows[1].Low, MinLow(Tail(rows)))

RECURSIVE SumVolume(_)
\* session_data['Volume'].sum()
SumVolume(rows) ==
    IF rows = <<>> THEN 0 ELSE rows[1].Volume + SumVolume(Tail(rows))

\* the trend read off the last candle alone
session_trend_last_candle(session_data) ==
    LET open_price == session_data[Len(session_data)].Open
        close_price == session_data[Len(session_data)].Close
    IN IF close_price > open_price THEN "bullish"
       ELSE IF close_price < open_price THEN "bearish"
       ELSE "flat"

\* the trend of the slice: its last close against its first open
session_trend(session_data) ==
    LET open_price == session_data[1].Open
        close_price == session_data[Len(session_data)].Close
    IN IF close_price > open_price THEN "bullish"
       ELSE IF close_price < open_price THEN "bearish"
       ELSE "flat"

\* a candle counted as bullish also when it closes where it opened
BullishCandleOrEqual(r) == r.Close >= r.Open

\* session_data['Close'] > session_data['Open']
BullishCandle(r) == r.Close > r.Open

\* session_data['Close'] < session_data['Open']
BearishCandle(r) == r.Close < r.Open

\* session_data['Close'] == session_data['Open']
NeutralCandle(r) == r.Close = r.Open

\* the dictionary of session details, or None for an empty slice
analyze_session_details(session_data) ==
    IF session_data = <<>>
    THEN NoAnalysis
    ELSE [none |-> FALSE,
          trend |-> session_trend(session_data),
          session_open |-> session_data[1].Open,
          session_close |-> session_data[Len(session_data)].Close,
          session_high |-> MaxHigh(session_data),
          session_low |-> MinLow(session_data),
          bullish_candles |-> Len(SelectSeq(session_data, BullishCandle)),
          bearish_candles |-> Len(SelectSeq(session_data, BearishCandle)),
          neutral_candles |-> Len(SelectSeq(session_data, NeutralCandle)),
          total_volume |-> SumVolume(session_data)]

\* one row of the report
DailyRecord(day_date, sd, a) ==
    [Date |-> day_date, SessionName |-> sd.name, Trend |-> a.trend,
     SessionOpen |-> a.session_open, SessionClose |-> a.session_close,
     SessionHigh |-> a.session_high, SessionLow |-> a.session_low,
     BullishCandles |-> a.bullish_candles, BearishCandles |-> a.bearish_candles,
     NeutralCandles |-> a.neutral_candles, TotalVolume |-> a.total_volume]

\* all_session_data.index.date: the UTC calendar date of the row's timestamp
GroupKey(row) == UtcDate(row.ts)

GroupKeys(df) == {GroupKey(df[i]) : i \in 1..Len(df)}

RECURSIVE Descending(_)
\* the keys of a groupby yielded latest first
Descending(keys) ==
    IF keys = {} THEN <<>>
    ELSE LET greatest == CHOOSE k \in keys : \A j \in keys : k >= j
         IN <<greatest>> \o Descending(keys \ {greatest})

RECURSIVE Ascending(_)
\* the keys of a groupby, in the order it yields them
Ascending(keys) ==
    IF keys = {} THEN <<>>
    ELSE LET least == CHOOSE k \in keys : \A j \in keys : k <= j
         IN <<least>> \o Ascending(keys \ {least})

\* a group that also takes the row at midnight of the following date
GroupOfThroughNextMidnight(df, key) ==
    SelectSeq(df, LAMBDA row : GroupKey(row) = key \/ row.ts = (key + 1) * DayLen)

\* the group of one key: its rows in the order of the frame
GroupOf(df, key) == SelectSeq(df, LAMBDA row : GroupKey(row) = key)

\* the loop over all_session_data.groupby(all_session_data.index.date)
DailyRecords(df, sd) ==
    LET keys == Ascending(GroupKeys(df))
        all == [i \in 1..Len(keys) |->
                   [key |-> keys[i],
                    details |-> analyze_session_details(GroupOf(df, keys[i]))]]
        kept == SelectSeq(all, LAMBDA g : ~g.details.none)
    IN [i \in 1..Len(kept) |-> DailyRecord(kept[i].key, sd, kept[i].details)]

----------------------------------------------------------------------------
(* analyze_session_details called on its own: any slice of up to MaxSlice  *)
(* candles                                                                 *)

\* opens and closes of the candles of a slice
SlicePrices == {100, 103, 105}

\* volumes of the candles of a slice: an untraded and a traded candle
SliceVolumes == {0, 2}

\* a candle that opens at o, closes at c and trades v; a traded candle has
\* a wick above and below its body
SliceCandle(t, o, c, v) ==
    [ts |-> t, Open |-> o, Close |-> c,
     High |-> Max2(o, c) + v \div 2, Low |-> Min2(o, c) - v \div 2, Volume |-> v]

\* the slices of n candles in time order
Slices(n) ==
    {[i \in 1..n |-> SliceCandle(i, f[i][1], f[i][2], f[i][3])] :
        f \in [1..n -> SlicePrices \X SlicePrices \X SliceVolumes]}

InitAggregate ==
    /\ session_def = SessionDefinition("Asia_Generic_UTC", "UTC", H(0), H(9))
    /\ source_data = <<>>
    /\ index_tz = "UTC"
    /\ start_date = 0
    /\ end_date = 0
    /\ market_data = <<>>
    /\ current_date = 0
    /\ boundaries = NoBoundaries
    /\ all_session_candles = <<>>
    /\ visited = <<>>
    /\ \E n \in 0..MaxSlice : result_df \in Slices(n)
    /\ report = <<>>
    /\ raised = FALSE
    /\ session_details = NoAnalysis
    /\ cache = NoCache
    /\ run = 1
    /\ first_run = NoRun
    /\ constructor_args = session_def
    /\ last_call = NoCall
    /\ pc = "aggregator"

\* analyze_session_details(result_df)
AnalyzeSlice ==
    /\ pc = "aggregator"
    /\ session_details' = analyze_session_details(result_df)
    /\ pc' = "aggregated"
    /\ UNCHANGED <<session_def, source_data, index_tz, start_date, end_date,
                   market_data, current_date, boundaries, all_session_candles,
                   visited, result_df, report, raised, cache, run, first_run,
                   constructor_args, last_call>>

NextAggregate == AnalyzeSlice

SpecAggregate == InitAggregate /\ [][NextAggregate]_vars

----------------------------------------------------------------------------
(* DataManager.get_data called on its own, again and again for one key     *)
(* (symbol, start day, end day, interval), the data source answering with  *)
(* a series that may differ from call to call                              *)

\* index zones of the series of the data source
SourceIndexTimezones == {"naive", "America/New_York"}

\* what the data source may answer: no rows, or one or two candles
SourceFrames ==
    {Frame(Feed(DayLen + H(6), 1, n, iz, TRUE), iz) :
        n \in 0..2, iz \in SourceIndexTimezones}

\* files an earlier process may have left in cache_dir
CacheFiles == {ToParquet(f) : f \in {g \in SourceFrames : g.rows # <<>>}}

InitCache ==
    /\ session_def = SessionDefinition("Asia_Generic_UTC", "UTC", H(0), H(9))
    /\ source_data = <<>>
    /\ index_tz = "UTC"
    /\ start_date = 0
    /\ end_date = 0
    /\ market_data = <<>>
    /\ current_date = 0
    /\ boundaries = NoBoundaries
    /\ all_session_candles = <<>>
    /\ visited = <<>>
    /\ result_df = <<>>
    /\ report = <<>>
    /\ raised = FALSE
    /\ session_details = NoAnalysis
    /\ cache \in {NoCache} \cup CacheFiles
    /\ run = 1
    /\ first_run = NoRun
    /\ constructor_args = session_def
    /\ last_call = NoCall
    /\ pc = "cache"

\* one call get_data(symbol, start_date, end_date, interval, force_refresh)
CallGetData ==
    /\ pc = "cache"
    /\ \E force_refresh \in BOOLEAN, refetch \in BOOLEAN, write_ok \in BOOLEAN,
          fetched \in SourceFrames :
          LET got == get_data(cache, fetched, force_refresh, refetch, write_ok)
          IN /\ cache' = got.cache
             /\ last_call' = [made |-> TRUE,
                              force_refresh |-> force_refresh,
                              refetch |-> refetch,
                              write_ok |-> write_ok,
                              fetched |-> fetched,
                              cache_before |-> cache,
                              called_source |-> got.called_source,
                              returned |-> got.data]
    /\ UNCHANGED <<session_def, source_data, index_tz, start_date, end_date,
                   market_data, current_date, boundaries, all_session_candles,
                   visited, result_df, report, raised, session_details, run,
                   first_run, constructor_args, pc>>

NextCache == CallGetData

SpecCache == InitCache /\ [][NextCache]_vars

----------------------------------------------------------------------------
(* A SessionDefinition from its construction on: the constructor, attribute *)
(* assignment and resolutions made with the object                          *)

\* names that pytz.timezone does not know
UnknownZoneNames == {"Mars/Olympus_Mons", "Europe/Atlantis"}

\* local times a definition is constructed with or set to
DefinitionTimes == {H(9), HM(17, 30)}

ConstructorArgs ==
    {SessionDefinition("Xetra", z, s, e) :
        z \in ZoneNames \cup UnknownZoneNames,
        s \in DefinitionTimes, e \in DefinitionTimes}

\* no object: the constructor has not returned one
NoDefinition == [constructed |-> FALSE]

\* a lookup that accepts every name
KnownTimezoneUnchecked(name) == TRUE

\* pytz.timezone(name) does not raise UnknownTimeZoneError
KnownTimezone(name) == name \in ZoneNames

\* SessionDefinition(...): the generated __init__ followed by __post_init__
Construct(args) ==
    IF KnownTimezone(args.exchange_timezone)
    THEN [object |-> args, error |-> "none"]
    ELSE [object |-> NoDefinition, error |-> "ValueError"]

InitDefinition ==
    /\ session_def = NoDefinition
    /\ source_data = <<>>
    /\ index_tz = "UTC"
    /\ start_date = 0
    /\ end_date = 0
    /\ market_data = <<>>
    /\ current_date = 0
    /\ boundaries = NoBoundaries
    /\ all_session_candles = <<>>
    /\ visited = <<>>
    /\ result_df = <<>>
    /\ report = <<>>
    /\ raised = FALSE
    /\ session_details = NoAnalysis
    /\ cache = NoCache
    /\ run = 1
    /\ first_run = NoRun
    /\ constructor_args = NoDefinition
    /\ last_call = NoCall
    /\ pc = "unconstructed"

\* the caller constructs a definition
ConstructDefinition ==
    /\ pc = "unconstructed"
    /\ \E args \in ConstructorArgs :
          /\ constructor_args' = args
          /\ session_def' = Construct(args).object
          /\ raised' = (Construct(args).error # "none")
          /\ pc' = IF Construct(args).error # "none" THEN "raised" ELSE "constructed"
    /\ UNCHANGED <<source_data, index_tz, start_date, end_date, market_data,
                   current_date, boundaries, all_session_candles, visited,
                   result_df, report, session_details, cache, run, first_run,
                   last_call>>

\* the caller assigns to a field of the object: the dataclass is not frozen,
\* the assignment succeeds and __post_init__ is not run again
SetAttribute ==
    /\ pc \in {"constructed", "in_use"}
    /\ \/ \E z \in {"America/New_York", "Europe/Atlantis"} :
             session_def' = [session_def EXCEPT !.exchange_timezone = z]
       \/ \E t \in DefinitionTimes :
             session_def' = [session_def EXCEPT !.local_start_time = t]
       \/ \E t \in DefinitionTimes :
             session_def' = [session_def EXCEPT !.local_end_time = t]
       \/ \E n \in {"Xetra", "Renamed"} :
             session_def' = [session_def EXCEPT !.name = n]
    /\ pc' = "in_use"
    /\ UNCHANGED <<source_data, index_tz, start_date, end_date, market_data,
                   current_date, boundaries, all_session_candles, visited,
                   result_df, report, raised, session_details, cache, run,
                   first_run, constructor_args, last_call>>

\* a later resolution with the object: pytz.timezone of the zone it now
\* names, which raises UnknownTimeZoneError for a name it does not know
ResolveDefinition ==
    /\ pc \in {"constructed", "in_use"}
    /\ \E d \in Dates :
          /\ current_date' = d
          /\ boundaries' =
                IF session_def.exchange_timezone \in ZoneNames
                THEN get_utc_session_boundaries_for_date(session_def, d)
                ELSE [kind |-> "UnknownTimeZoneError", start_utc |-> 0, end_utc |-> 0]
    /\ pc' = "in_use"
    /\ UNCHANGED <<session_def, source_data, index_tz, start_date, end_date,
                   market_data, all_session_candles, visited, result_df, report,
                   raised, session_details, cache, run, first_run,
                   constructor_args, last_call>>

NextDefinition == ConstructDefinition \/ SetAttribute \/ ResolveDefinition

SpecDefinition == InitDefinition /\ [][NextDefinition]_vars

----------------------------------------------------------------------------
(* The analyzer as a state machine: one call of get_daily_session_analysis *)

\* the sessions of SUPPORTED_SESSIONS, the midnight-crossing example of
\* trading_sessions.py, and sessions that open or close in a skipped or
\* repeated hour, span two UTC dates, have equal times or last the whole
\* day (00:00 to 23:59, the last tick of the day)
PipelineSessions ==
    {SessionDefinition("Frankfurt_Xetra_Main", "Europe/Berlin", H(9), HM(17, 30)),
     SessionDefinition("London_LSE_Main", "Europe/London", H(8), HM(16, 30)),
     SessionDefinition("NewYork_NYSE_Main", "America/New_York", HM(9, 30), H(16)),
     SessionDefinition("Asia_Generic_UTC", "UTC", H(0), H(9)),
     SessionDefinition("Tokyo_TSE_Morning", "Asia/Tokyo", H(9), HM(11, 30)),
     SessionDefinition("Hypothetical Midnight Cross", "Australia/Sydney", H(22), H(5)),
     SessionDefinition("Sydney_Day", "Australia/Sydney", H(10), H(16)),
     SessionDefinition("UTC_Overnight", "UTC", H(22), H(2)),
     SessionDefinition("Berlin_Early", "Europe/Berlin", HM(2, 30), H(9)),
     SessionDefinition("London_Early", "Europe/London", HM(1, 30), H(8)),
     SessionDefinition("NewYork_Night", "America/New_York", H(20), HM(2, 30)),
     SessionDefinition("Tokyo_Noon", "Asia/Tokyo", H(12), H(12)),
     SessionDefinition("Berlin_FullDay", "Europe/Berlin", H(0), HM(23, 59)),
     SessionDefinition("London_FullDay", "Europe/London", H(0), HM(23, 59)),
     SessionDefinition("Havana_FullDay", "America/Havana", H(0), HM(23, 59))}

IndexTimezones == {"naive", "UTC", "America/New_York"}

\* yfinance intervals 30m, 60m, 90m
CandleSteps == {1, 2, 3}

FirstInstants == {0 - H(12), HM(12, 30)}

Feeds(iz) ==
    {Feed(first, step, n, iz, asc) :
        first \in FirstInstants, step \in CandleSteps,
        n \in {0, 1, MaxRows}, asc \in BOOLEAN}

Init ==
    /\ session_def \in PipelineSessions
    /\ index_tz \in IndexTimezones
    /\ source_data \in Feeds(index_tz)
    /\ start_date \in {0, 1}
    /\ end_date \in {start_date - 1, start_date, MaxDate}
    /\ market_data = <<>>
    /\ current_date = start_date
    /\ boundaries = NoBoundaries
    /\ all_session_candles = <<>>
    /\ visited = <<>>
    /\ result_df = <<>>
    /\ report = <<>>
    /\ raised = FALSE
    /\ session_details = NoAnalysis
    /\ cache = NoCache
    /\ run = 1
    /\ first_run = NoRun
    /\ constructor_args = session_def
    /\ last_call = NoCall
    /\ pc = "start"

\* a frame after `market_data.index = ...`: its index replaced in place by
\* the UTC one
IndexReplaced(frame) ==
    LET normalised == NormalizeIndex(frame.rows, frame.index_tz)
    IN Frame([i \in 1..Len(normalised) |->
                 [wall |-> normalised[i].ts, utcoffset |-> 0,
                  Open |-> normalised[i].Open, High |-> normalised[i].High,
                  Low |-> normalised[i].Low, Close |-> normalised[i].Close,
                  Volume |-> normalised[i].Volume]],
             "UTC")

\* what data_source.fetch_data can hand over: a frame of the series, or, in
\* a second call, the very frame object the first call was handed and
\* whose index it has replaced
FetchedFrames ==
    {Frame(source_data, index_tz)}
        \cup IF run = 1 \/ source_data = <<>> THEN {}
             ELSE {IndexReplaced(Frame(source_data, index_tz))}

\* get_session_data up to the loop: get_data (called without force_refresh,
\* the cache directory being writable), the empty check, index normalisation
FetchAndNormalize ==
    /\ pc = "start"
    /\ \E refetch \in BOOLEAN : \E fetched \in FetchedFrames :
          LET got == get_data(cache, fetched, FALSE, refetch, TRUE)
          IN /\ cache' = got.cache
             /\ IF got.data.rows = <<>>
                THEN /\ pc' = "extracted"
                     /\ UNCHANGED market_data
                ELSE /\ pc' = "loop"
                     /\ market_data' = NormalizeIndex(got.data.rows, got.data.index_tz)
    /\ current_date' = start_date
    /\ all_session_candles' = <<>>
    /\ result_df' = <<>>
    /\ UNCHANGED <<session_def, source_data, index_tz, start_date, end_date,
                   boundaries, visited, report, raised,
                   session_details, run, first_run,
                   constructor_args, last_call>>

\* one pass of `while current_date <= end_date_dt.date()`
LoopDate ==
    /\ pc = "loop"
    /\ current_date <= end_date
    /\ LET out == ProcessDate(all_session_candles, market_data, session_def,
                              current_date)
       IN /\ all_session_candles' = out.candles
          /\ raised' = out.escaped
          /\ pc' = IF out.escaped THEN "raised" ELSE "loop"
    /\ boundaries' = get_utc_session_boundaries_for_date(session_def, current_date)
    /\ visited' = Append(visited, current_date)
    /\ current_date' = current_date + 1
    /\ UNCHANGED <<session_def, source_data, index_tz, start_date, end_date,
                   market_data, result_df, report,
                   session_details, cache, run, first_run,
                   constructor_args, last_call>>

\* after the loop: the empty check, pd.concat and sort_index
ConcatAndSort ==
    /\ pc = "loop"
    /\ current_date > end_date
    /\ LET out == CollectResult(all_session_candles)
       IN /\ result_df' = out.df
          /\ raised' = out.escaped
          /\ pc' = IF out.escaped THEN "raised" ELSE "extracted"
    /\ UNCHANGED <<session_def, source_data, index_tz, start_date, end_date,
                   market_data, current_date, boundaries, all_session_candles,
                   visited, report,
                   session_details, cache, run, first_run,
                   constructor_args, last_call>>

\* get_daily_session_analysis after get_session_data has returned
DailyAnalysis ==
    /\ pc = "extracted"
    /\ report' = IF result_df = <<>> THEN <<>>
                 ELSE DailyRecords(result_df, session_def)
    /\ pc' = "done"
    /\ UNCHANGED <<session_def, source_data, index_tz, start_date, end_date,
                   market_data, current_date, boundaries, all_session_candles,
                   visited, result_df, raised,
                   session_details, cache, run, first_run,
                   constructor_args, last_call>>

Next == FetchAndNormalize \/ LoopDate \/ ConcatAndSort \/ DailyAnalysis

Spec == Init /\ [][Next]_vars

----------------------------------------------------------------------------
(* get_daily_session_analysis called twice in succession on the same inputs *)

\* the first call has returned: its output is kept and the second call begins
RunAgain ==
    /\ pc = "done"
    /\ run = 1
    /\ first_run' = [over |-> TRUE, result |-> result_df, report |-> report]
    /\ run' = 2
    /\ market_data' = <<>>
    /\ current_date' = start_date
    /\ boundaries' = NoBoundaries
    /\ all_session_candles' = <<>>
    /\ visited' = <<>>
    /\ result_df' = <<>>
    /\ report' = <<>>
    /\ pc' = "start"
    /\ UNCHANGED <<session_def, source_data, index_tz, start_date, end_date,
                   raised, session_details, cache,
                   constructor_args, last_call>>

NextTwice == Next \/ RunAgain

SpecTwice == Init /\ [][NextTwice]_vars

----------------------------------------------------------------------------
(* Wall-clock description of a zone, used to state the properties: where   *)
(* on the local clock the skipped or repeated hour lies                    *)

HasTransition(tz) == Len(tz.utc_transition_times) > 1

OffsetBefore(tz) == tz.transition_info[1]

OffsetAfter(tz) == tz.transition_info[Len(tz.transition_info)]

TransitionInstant(tz) == tz.utc_transition_times[Len(tz.utc_transition_times)]

\* the DST delta: what the transition adds to the UTC offset
DstDelta(tz) == OffsetAfter(tz) - OffsetBefore(tz)

\* clocks turned forward: the local times that never occur
InSkippedHour(tz, naive) ==
    /\ HasTransition(tz)
    /\ DstDelta(tz) > 0
    /\ TransitionInstant(tz) + OffsetBefore(tz) <= naive
    /\ naive < TransitionInstant(tz) + OffsetAfter(tz)

\* clocks turned back: the local times that occur twice
InRepeatedHour(tz, naive) ==
    /\ HasTransition(tz)
    /\ DstDelta(tz) < 0
    /\ TransitionInstant(tz) + OffsetAfter(tz) <= naive
    /\ naive < TransitionInstant(tz) + OffsetBefore(tz)

Resolvable(tz, naive) == ~InSkippedHour(tz, naive) /\ ~InRepeatedHour(tz, naive)

\* on which side of the transition a resolvable local time lies
AfterTransition(tz, naive) ==
    /\ HasTransition(tz)
    /\ naive >= TransitionInstant(tz) + OffsetBefore(tz)
    /\ naive >= TransitionInstant(tz) + OffsetAfter(tz)

\* the UTC offset in force at a resolvable local time
WallOffset(tz, naive) ==
    IF AfterTransition(tz, naive) THEN OffsetAfter(tz) ELSE OffsetBefore(tz)

\* the calendar date of an instant on the zone's clock
LocalDate(tz, u) == (u + UtcOffsetAt(tz, u)) \div DayLen

ToWall(tz, u) == u + UtcOffsetAt(tz, u)

\* the state after a resolver call on (session_def, current_date)
Resolved == pc = "resolver" /\ boundaries.kind # "none"

ResolvedOk == pc = "resolver" /\ boundaries.kind = "ok"

SessionZone == Timezone(session_def.exchange_timezone)

LocalStart == local_start_dt_naive(session_def, current_date)

LocalEnd == local_end_dt_naive(session_def, current_date)

----------------------------------------------------------------------------
(* Properties of the resolver, checked under SpecResolve *)

\* C2 (as stated): every returned window has start_utc < end_utc strictly,
\* whatever the order or equality of the two local times.
C2_StrictlyOrdered ==
    ResolvedOk => boundaries.start_utc < boundaries.end_utc

\* C2 (amended): every returned window has start_utc <= end_utc, strictly
\* unless local_end_time = local_start_time, when it is the single instant
\* start_utc = end_utc.
C2_OrderedStrictUnlessEqualTimes ==
    ResolvedOk =>
        /\ boundaries.start_utc <= boundaries.end_utc
        /\ (boundaries.start_utc = boundaries.end_utc
              <=> session_def.local_end_time = session_def.local_start_time)

C2_Witness ==
    /\ ResolvedOk
    /\ session_def.local_end_time < session_def.local_start_time
    /\ boundaries.start_utc < boundaries.end_utc
    /\ WallOffset(SessionZone, LocalStart) # WallOffset(SessionZone, LocalEnd)

\* C3: when the local start or the local end of the session on the target
\* date lies in a skipped or a repeated local hour, the call raises
\* NonExistentTimeError resp. AmbiguousTimeError (the start is localized
\* first) and returns no window.
C3_StrictDst ==
    Resolved =>
        /\ InSkippedHour(SessionZone, LocalStart)
              => boundaries.kind = "NonExistentTimeError"
        /\ InRepeatedHour(SessionZone, LocalStart)
              => boundaries.kind = "AmbiguousTimeError"
        /\ (Resolvable(SessionZone, LocalStart) /\ InSkippedHour(SessionZone, LocalEnd))
              => boundaries.kind = "NonExistentTimeError"
        /\ (Resolvable(SessionZone, LocalStart) /\ InRepeatedHour(SessionZone, LocalEnd))
              => boundaries.kind = "AmbiguousTimeError"

C3_Witness ==
    /\ Resolved
    /\ Resolvable(SessionZone, LocalStart)
    /\ InRepeatedHour(SessionZone, LocalEnd)
    /\ boundaries.kind = "AmbiguousTimeError"

\* C7: each returned instant is the local wall-clock timestamp minus the
\* offset in force at that local time; Xetra 09:00-17:30 Europe/Berlin is
\* 08:00-16:30 UTC on date 0 (2023-03-25) and 07:00-15:30 UTC on date 2
\* (2023-03-27).
C7_OffsetInForce ==
    /\ ResolvedOk =>
          /\ boundaries.start_utc = LocalStart - WallOffset(SessionZone, LocalStart)
          /\ boundaries.end_utc = LocalEnd - WallOffset(SessionZone, LocalEnd)
    /\ ( /\ Resolved
         /\ session_def.exchange_timezone = "Europe/Berlin"
         /\ session_def.local_start_time = H(9)
         /\ session_def.local_end_time = HM(17, 30) ) =>
          /\ current_date = 0 =>
                boundaries = [kind |-> "ok", start_utc |-> H(8),
                              end_utc |-> HM(16, 30)]
          /\ current_date = 2 =>
                boundaries = [kind |-> "ok", start_utc |-> 2 * DayLen + H(7),
                              end_utc |-> 2 * DayLen + HM(15, 30)]

C7_Witness ==
    /\ ResolvedOk
    /\ session_def.exchange_timezone = "Europe/Berlin"
    /\ session_def.local_start_time = H(9)
    /\ session_def.local_end_time = HM(17, 30)
    /\ current_date = 2

\* the local date on which the zone changes its clocks
TransitionDate(tz) == (TransitionInstant(tz) + OffsetBefore(tz)) \div DayLen

\* how far instant u of date d lies from instant v of date a, both taken at
\* the same time of day
ShiftAgainst(u, d, v, a) == (u - v) - (d - a) * DayLen

\* C8 (as stated): on the transition date, when both local times resolve,
\* start_utc and end_utc both differ from an adjacent day's by exactly the
\* DST delta, and end_utc - start_utc is the local duration.
C8_BothShiftByDelta ==
    ( /\ ResolvedOk
      /\ HasTransition(SessionZone)
      /\ current_date = TransitionDate(SessionZone) ) =>
        /\ boundaries.end_utc - boundaries.start_utc = LocalEnd - LocalStart
        /\ \E a \in {current_date - 1, current_date + 1} :
              LET adj == get_utc_session_boundaries_for_date(session_def, a)
              IN /\ adj.kind = "ok"
                 /\ Abs(ShiftAgainst(boundaries.start_utc, current_date,
                                     adj.start_utc, a)) = Abs(DstDelta(SessionZone))
                 /\ Abs(ShiftAgainst(boundaries.end_utc, current_date,
                                     adj.end_utc, a)) = Abs(DstDelta(SessionZone))

\* the session of date d lies wholly after (wholly before) the transition
WhollyAfter(sd, d) ==
    /\ AfterTransition(Timezone(sd.exchange_timezone), local_start_dt_naive(sd, d))
    /\ AfterTransition(Timezone(sd.exchange_timezone), local_end_dt_naive(sd, d))

WhollyBefore(sd, d) ==
    /\ ~AfterTransition(Timezone(sd.exchange_timezone), local_start_dt_naive(sd, d))
    /\ ~AfterTransition(Timezone(sd.exchange_timezone), local_end_dt_naive(sd, d))

\* C8 (amended): when no offset change lies between the local start and the
\* local end, end_utc - start_utc is the local duration, and against an
\* adjacent day lying wholly on the other side of the transition both
\* instants are shifted by exactly the DST delta; when the transition lies
\* between local start and local end, end_utc - start_utc is the local
\* duration less the DST delta.
C8_ShiftByDeltaUnlessStraddling ==
    ResolvedOk =>
        /\ (WhollyAfter(session_def, current_date) \/ WhollyBefore(session_def, current_date))
              => boundaries.end_utc - boundaries.start_utc = LocalEnd - LocalStart
        /\ (~AfterTransition(SessionZone, LocalStart) /\ AfterTransition(SessionZone, LocalEnd))
              => boundaries.end_utc - boundaries.start_utc
                    = LocalEnd - LocalStart - DstDelta(SessionZone)
        /\ \A a \in {current_date - 1, current_date + 1} :
              LET adj == get_utc_session_boundaries_for_date(session_def, a)
              IN /\ (adj.kind = "ok" /\ WhollyAfter(session_def, current_date)
                        /\ WhollyBefore(session_def, a)) =>
                       /\ ShiftAgainst(boundaries.start_utc, current_date,
                                       adj.start_utc, a) = 0 - DstDelta(SessionZone)
                       /\ ShiftAgainst(boundaries.end_utc, current_date,
                                       adj.end_utc, a) = 0 - DstDelta(SessionZone)
                 /\ (adj.kind = "ok" /\ WhollyBefore(session_def, current_date)
                        /\ WhollyAfter(session_def, a)) =>
                       /\ ShiftAgainst(boundaries.start_utc, current_date,
                                       adj.start_utc, a) = DstDelta(SessionZone)
                       /\ ShiftAgainst(boundaries.end_utc, current_date,
                                       adj.end_utc, a) = DstDelta(SessionZone)

C8_Witness ==
    /\ ResolvedOk
    /\ HasTransition(SessionZone)
    /\ current_date = TransitionDate(SessionZone)
    /\ WhollyAfter(session_def, current_date)
    /\ WhollyBefore(session_def, current_date - 1)
    /\ get_utc_session_boundaries_for_date(session_def, current_date - 1).kind = "ok"

\* C9: read on the exchange's clock, start_utc is (target_date,
\* local_start_time) and end_utc is (target_date + 1, local_end_time) exactly
\* when local_end_time < local_start_time, else (target_date, local_end_time).
C9_EndAnchoredNextDayIffCrossing ==
    ResolvedOk =>
        /\ ToWall(SessionZone, boundaries.start_utc)
              = Combine(current_date, session_def.local_start_time)
        /\ ToWall(SessionZone, boundaries.end_utc)
              = Combine(IF session_def.local_end_time < session_def.local_start_time
                        THEN current_date + 1 ELSE current_date,
                        session_def.local_end_time)

C9_Witness ==
    /\ ResolvedOk
    /\ session_def.local_end_time = session_def.local_start_time
    /\ HasTransition(SessionZone)

\* C10 (as stated): for local_end_time < local_start_time the UTC calendar
\* date of end_utc is at least one day after the UTC calendar date of
\* start_utc.
C10_UtcDateAdvances ==
    (ResolvedOk /\ session_def.local_end_time < session_def.local_start_time)
        => UtcDate(boundaries.end_utc) >= UtcDate(boundaries.start_utc) + 1

\* C10 (amended): for local_end_time < local_start_time the calendar date of
\* end_utc on the exchange's clock is target_date + 1, one day after that of
\* start_utc, which is target_date.
C10_LocalDateAdvances ==
    (ResolvedOk /\ session_def.local_end_time < session_def.local_start_time) =>
        /\ LocalDate(SessionZone, boundaries.start_utc) = current_date
        /\ LocalDate(SessionZone, boundaries.end_utc) = current_date + 1

C10_Witness ==
    /\ ResolvedOk
    /\ session_def.local_end_time < session_def.local_start_time
    /\ UtcDate(boundaries.end_utc) = UtcDate(boundaries.start_utc)

\* C11: for local_end_time >= local_start_time, on every date on which the
\* same UTC offset is in force at the local start and at the local end, the
\* returned window is exactly local_end_time - local_start_time long.
C11_DurationPreserved ==
    ( /\ ResolvedOk
      /\ session_def.local_end_time >= session_def.local_start_time
      /\ WallOffset(SessionZone, Combine(current_date, session_def.local_start_time))
            = WallOffset(SessionZone, Combine(current_date, session_def.local_end_time)) )
        => boundaries.end_utc - boundaries.start_utc
              = session_def.local_end_time - session_def.local_start_time

C11_Witness ==
    /\ ResolvedOk
    /\ session_def.local_end_time > session_def.local_start_time
    /\ HasTransition(SessionZone)
    /\ current_date = TransitionDate(SessionZone)
    /\ AfterTransition(SessionZone, Combine(current_date, session_def.local_start_time))
    /\ boundaries.end_utc - boundaries.start_utc
          = session_def.local_end_time - session_def.local_start_time

\* rows at the opening and closing instants of two windows, in time order
BoundaryRows(w, v) ==
    LET instants == Ascending({w.start_utc, w.end_utc, v.start_utc, v.end_utc})
    IN [i \in 1..Len(instants) |-> [ts |-> instants[i]]]

\* what the extraction loop collects from data over the two dates d and a
ExtractedOver(data, d, a) ==
    Concat(ProcessDate(ProcessDate(<<>>, data, session_def, d).candles,
                       data, session_def, a).candles)

\* C13: the resolved windows of any two distinct dates share no instant,
\* whether the session crosses midnight or not and whatever the zone does
\* between them, so that a row picked up for one date is not picked up for
\* another: no row appears twice in what the loop collects.
C13_WindowsShareNoInstant ==
    ResolvedOk =>
        \A a \in Dates \ {current_date} :
            LET other == get_utc_session_boundaries_for_date(session_def, a)
                picked == ExtractedOver(BoundaryRows(boundaries, other), current_date, a)
            IN other.kind = "ok" =>
                  /\ \/ boundaries.end_utc < other.start_utc
                     \/ other.end_utc < boundaries.start_utc
                  /\ \A i \in 1..Len(picked) : \A j \in 1..Len(picked) :
                        picked[i] = picked[j] => i = j

C13_Witness ==
    /\ ResolvedOk
    /\ session_def.local_end_time < session_def.local_start_time
    /\ HasTransition(SessionZone)
    /\ ~AfterTransition(SessionZone, LocalEnd)
    /\ LET next == get_utc_session_boundaries_for_date(session_def, current_date + 1)
       IN /\ next.kind = "ok"
          /\ AfterTransition(SessionZone, local_start_dt_naive(session_def, current_date + 1))
          /\ boundaries.end_utc < next.start_utc
          /\ Len(ExtractedOver(BoundaryRows(boundaries, next), current_date,
                               current_date + 1)) = 4

----------------------------------------------------------------------------
(* Properties of the analyzer, checked under Spec *)

Extracted == pc \in {"extracted", "done"}

Rows(df) == {df[i] : i \in 1..Len(df)}

RangeDates == start_date..end_date

WindowOf(d) == get_utc_session_boundaries_for_date(session_def, d)

\* the rows of the normalised input inside the resolved window of date d
WindowRows(d) ==
    SelectSeq(market_data,
              LAMBDA r : /\ WindowOf(d).start_utc <= r.ts
                         /\ r.ts <= WindowOf(d).end_utc)

\* C1: the extractor returns exactly the input rows whose UTC timestamp lies
\* in [start_utc(d), end_utc(d)], both ends included, for some date d of the
\* range on which resolution succeeds.
C1_ExactlyTheWindowRows ==
    Extracted =>
        Rows(result_df) =
            {r \in Rows(market_data) :
                \E d \in RangeDates :
                    /\ WindowOf(d).kind = "ok"
                    /\ WindowOf(d).start_utc <= r.ts
                    /\ r.ts <= WindowOf(d).end_utc}

C1_Witness ==
    /\ Extracted
    /\ \E d \in RangeDates :
          /\ WindowOf(d).kind = "ok"
          /\ \E r \in Rows(result_df) : r.ts = WindowOf(d).start_utc
          /\ \E r \in Rows(result_df) : r.ts = WindowOf(d).end_utc
          /\ \E r \in Rows(market_data) : r.ts = WindowOf(d).end_utc + 1
    /\ Rows(result_df) # Rows(market_data)

\* the dates of the range in order, and those among them that resolve
RangeSeq == [i \in 1..(IF end_date >= start_date THEN end_date - start_date + 1 ELSE 0)
                |-> start_date + i - 1]

ResolvingDates == SelectSeq(RangeSeq, LAMBDA d : WindowOf(d).kind = "ok")

\* C4: a date whose resolution fails is skipped: nothing is raised, every
\* date of the range is gone through, and the result is that of the range
\* with the failing dates removed.
C4_FailedDateIsSkipped ==
    /\ ~raised
    /\ pc # "raised"
    /\ (Extracted /\ source_data # <<>>) =>
          /\ visited = RangeSeq
          /\ result_df =
                SortIndex(Concat([i \in 1..Len(ResolvingDates) |->
                                     WindowRows(ResolvingDates[i])]))

C4_Witness ==
    /\ Extracted
    /\ \E d \in RangeDates :
          /\ WindowOf(d).kind # "ok"
          /\ \E later \in RangeDates :
                /\ later > d
                /\ WindowOf(later).kind = "ok"
                /\ \E r \in Rows(result_df) :
                      /\ WindowOf(later).start_utc <= r.ts
                      /\ r.ts <= WindowOf(later).end_utc

\* C12: whatever the order of the input rows, the rows of the extractor's
\* result are in ascending order of UTC timestamp.
C12_ResultSortedByTimestamp ==
    Extracted =>
        \A i \in 1..Len(result_df) : \A j \in i..Len(result_df) :
            result_df[i].ts <= result_df[j].ts

C12_Witness ==
    /\ Extracted
    /\ \E i \in 1..(Len(market_data) - 1) : market_data[i].ts > market_data[i + 1].ts
    /\ Len(all_session_candles) > 1
    /\ \A k \in 1..Len(all_session_candles) : Len(all_session_candles[k]) > 1
    /\ Len(result_df) > 2

\* no date of the range has a resolved window that holds a row of the series
NoDateMatches ==
    \A d \in RangeDates :
        WindowOf(d).kind = "ok" =>
            FilterRows(NormalizeIndex(source_data, index_tz),
                       WindowOf(d).start_utc, WindowOf(d).end_utc) = <<>>

\* C14: when the series is empty or no date of the range yields a matching
\* row (an empty range and a range whose every date fails to resolve
\* included), nothing is raised, the extractor returns the empty series and
\* the daily report is empty.
C14_EmptyIsNotAnError ==
    (source_data = <<>> \/ NoDateMatches) =>
        /\ ~raised
        /\ pc # "raised"
        /\ Extracted => result_df = <<>>
        /\ pc = "done" => report = <<>>

C14_Witness ==
    /\ pc = "done"
    /\ source_data # <<>>
    /\ RangeDates # {}
    /\ \A d \in RangeDates : WindowOf(d).kind # "ok"
    /\ visited = RangeSeq
    /\ result_df = <<>>
    /\ report = <<>>

\* the session lasts the whole local day
FullDaySession ==
    session_def.local_start_time = H(0) /\ session_def.local_end_time = HM(23, 59)

\* the rows whose timestamp, read on the exchange's clock, falls on date d
RowsOfLocalDate(d) ==
    {r \in Rows(market_data) : LocalDate(SessionZone, r.ts) = d}

\* C15 (as stated): for a session lasting the whole local day, the result
\* holds every row whose timestamp on the exchange's clock falls on a date
\* of the range, unaltered.
C15_FullDayReturnsEveryRow ==
    (Extracted /\ FullDaySession) =>
        /\ Rows(result_df) \subseteq Rows(market_data)
        /\ \A d \in RangeDates : RowsOfLocalDate(d) \subseteq Rows(result_df)

\* C15 (amended): for a session lasting the whole local day, the result
\* holds, unaltered, every row whose timestamp on the exchange's clock falls
\* on a date of the range on which local 00:00 and the local end of day both
\* resolve; it holds no row of a date whose local midnight is skipped.
C15_FullDayReturnsRowsOfResolvingDates ==
    (Extracted /\ FullDaySession) =>
        /\ Rows(result_df) \subseteq Rows(market_data)
        /\ \A d \in RangeDates :
              IF WindowOf(d).kind = "ok"
              THEN RowsOfLocalDate(d) \subseteq Rows(result_df)
              ELSE RowsOfLocalDate(d) \cap Rows(result_df) = {}

C15_Witness ==
    /\ Extracted
    /\ FullDaySession
    /\ \E d \in RangeDates :
          /\ WindowOf(d).kind # "ok"
          /\ RowsOfLocalDate(d) # {}
    /\ \E d \in RangeDates :
          /\ WindowOf(d).kind = "ok"
          /\ RowsOfLocalDate(d) # {}
          /\ RowsOfLocalDate(d) \subseteq Rows(result_df)

\* the record the report should hold for date d: the aggregate of the rows
\* of d's window, in time order, carrying the date d
RecordOfWindow(d) ==
    DailyRecord(d, session_def, analyze_session_details(SortIndex(WindowRows(d))))

HasWindowRows(d) == WindowOf(d).kind = "ok" /\ WindowRows(d) # <<>>

\* C5: for a midnight-crossing session, all rows of the window of date D,
\* those late on D and those early on D+1, make one single record of the
\* report, dated D.
C5_CrossingSessionNotSplit ==
    (pc = "done" /\ session_def.local_end_time < session_def.local_start_time) =>
        \A d \in RangeDates :
            HasWindowRows(d) =>
                /\ \E i \in 1..Len(report) : report[i] = RecordOfWindow(d)
                /\ Cardinality({i \in 1..Len(report) : report[i].Date = d}) = 1

\* C6: the report holds exactly one record for each date of the range whose
\* window holds a row, dated with that date and aggregating the rows of that
\* window, and no record for any other date.
C6_OneRecordPerSessionDate ==
    pc = "done" =>
        /\ \A d \in RangeDates :
              HasWindowRows(d) =>
                 /\ \E i \in 1..Len(report) : report[i] = RecordOfWindow(d)
                 /\ Cardinality({i \in 1..Len(report) : report[i].Date = d}) = 1
        /\ \A i \in 1..Len(report) :
              \E d \in RangeDates : HasWindowRows(d) /\ report[i].Date = d

\* C19: whatever the order of the input rows, the records of the report
\* are in strictly ascending order of their date: no two records carry the
\* same date and none comes before a record of an earlier date.
C19_ReportStrictlyAscendingByDate ==
    pc = "done" =>
        \A i \in 1..Len(report) : \A j \in 1..Len(report) :
            i < j => report[i].Date < report[j].Date

C19_Witness ==
    /\ pc = "done"
    /\ \E i \in 1..(Len(source_data) - 1) : source_data[i].wall > source_data[i + 1].wall
    /\ Len(report) >= 3
    /\ report[1].Date < report[2].Date
    /\ report[2].Date < report[3].Date

RECURSIVE SumCandleCounts(_)
\* the candle counts of all records of a report, added up
SumCandleCounts(records) ==
    IF records = <<>> THEN 0
    ELSE records[1].BullishCandles + records[1].BearishCandles
           + records[1].NeutralCandles + SumCandleCounts(Tail(records))

RECURSIVE SumTotalVolume(_)
\* the TotalVolume of all records of a report, added up
SumTotalVolume(records) ==
    IF records = <<>> THEN 0
    ELSE records[1].TotalVolume + SumTotalVolume(Tail(records))

\* C26: every row returned by get_session_data is aggregated into exactly
\* one record of the report: the BullishCandles, BearishCandles and
\* NeutralCandles of all records add up to the number of extracted rows, and
\* the TotalVolume of all records adds up to the volume of the extracted rows
C26_RowsConserved ==
    pc = "done" =>
        /\ \A i \in 1..Len(result_df) :
              Cardinality({j \in 1..Len(report) :
                              report[j].Date = GroupKey(result_df[i])}) = 1
        /\ SumCandleCounts(report) = Len(result_df)
        /\ SumTotalVolume(report) = SumVolume(result_df)

\* a report of several records, one of them aggregating several rows, the
\* last row of the first record being followed by a row at UTC midnight
C26_Witness ==
    /\ pc = "done"
    /\ Len(report) >= 2
    /\ Len(result_df) > Len(report)
    /\ SumVolume(result_df) > 0
    /\ \E i \in 1..Len(result_df) :
          result_df[i].ts = (report[1].Date + 1) * DayLen

\* the source series with the same instants, its index expressed in zone iz
\* ("naive": wall-clock readings of the UTC clock, without a zone)
Reexpressed(iz) ==
    [i \in 1..Len(source_data) |->
        LET u == source_data[i].wall - source_data[i].utcoffset
            off == IF iz \in {"naive", "UTC"} THEN 0
                   ELSE UtcOffsetAt(Timezone(iz), u)
        IN [source_data[i] EXCEPT !.wall = u + off, !.utcoffset = off]]

RECURSIVE ExtractFrom(_, _, _)
\* what get_session_data returns for the series data: the loop from date d
\* on, then the end of the function
ExtractFrom(data, d, candles) ==
    IF d > end_date
    THEN CollectResult(candles).df
    ELSE ExtractFrom(data, d + 1,
                     ProcessDate(candles, data, session_def, d).candles)

\* what get_session_data returns for the source series expressed in zone iz
ExtractedWithIndexIn(iz) ==
    ExtractFrom(NormalizeIndex(Reexpressed(iz), iz), start_date, <<>>)

\* C23: the extractor's result depends on the instants of the input rows
\* only: the series given with naive timestamps read as UTC and the same
\* instants given with aware timestamps of a zone yield the same rows.
C23_ResultIndependentOfIndexZone ==
    (pc = "extracted" /\ source_data # <<>>) =>
        /\ result_df = ExtractedWithIndexIn("naive")
        /\ result_df = ExtractedWithIndexIn("Europe/Berlin")

C23_Witness ==
    /\ pc = "extracted"
    /\ index_tz = "America/New_York"
    /\ \E i \in 1..Len(source_data) :
          source_data[i].utcoffset # source_data[1].utcoffset
    /\ Len(all_session_candles) > 1
    /\ result_df # <<>>
    /\ result_df = ExtractedWithIndexIn("naive")

----------------------------------------------------------------------------
(* Properties of two calls in succession, checked under SpecTwice *)

\* C20: a second call of the report builder on the same inputs returns what
\* the first call returned, the extracted series and the report alike:
\* what the first call leaves behind (the cache file) does not change it.
C20_SecondRunSameOutput ==
    (run = 2 /\ pc = "done") =>
        /\ first_run.over
        /\ report = first_run.report
        /\ result_df = first_run.result

C20_Witness ==
    /\ run = 2
    /\ pc = "done"
    /\ cache.exists
    /\ cache.index_tz = "America/New_York"
    /\ Len(report) >= 2
    /\ report = first_run.report

----------------------------------------------------------------------------
(* Properties of the aggregation, checked under SpecAggregate *)

\* analyze_session_details has returned the details of the slice result_df
Aggregated == pc = "aggregated" /\ result_df # <<>>

FirstRow == result_df[1]

LastRow == result_df[Len(result_df)]

\* C16: for every non-empty slice in time order the aggregate has the open
\* of the first row, the close of the last row, the greatest High, the least
\* Low and the sum of the volumes.
C16_AggregateOfSlice ==
    Aggregated =>
        /\ ~session_details.none
        /\ session_details.session_open = FirstRow.Open
        /\ session_details.session_close = LastRow.Close
        /\ \A i \in 1..Len(result_df) : result_df[i].High <= session_details.session_high
        /\ \E i \in 1..Len(result_df) : result_df[i].High = session_details.session_high
        /\ \A i \in 1..Len(result_df) : result_df[i].Low >= session_details.session_low
        /\ \E i \in 1..Len(result_df) : result_df[i].Low = session_details.session_low
        /\ session_details.total_volume =
              Cardinality(UNION {{<<i, v>> : v \in 1..result_df[i].Volume} :
                                    i \in 1..Len(result_df)})

C16_Witness ==
    /\ Aggregated
    /\ Len(result_df) = 3
    /\ result_df[2].High > FirstRow.High
    /\ result_df[2].High > LastRow.High
    /\ result_df[2].Low < FirstRow.Low
    /\ session_details.session_high = result_df[2].High
    /\ session_details.session_low = result_df[2].Low
    /\ session_details.total_volume = 4
    /\ FirstRow.Open # LastRow.Open
    /\ FirstRow.Close # LastRow.Close

\* C17: the trend is fixed by the first open and the last close alone:
\* bullish iff the last close is above the first open, bearish iff below,
\* flat iff equal; the rows (open 100, close 105), (open 105, close 103)
\* give "bullish" with one bullish and one bearish candle.
C17_TrendFromFirstOpenAndLastClose ==
    Aggregated =>
        /\ session_details.trend = "bullish" <=> LastRow.Close > FirstRow.Open
        /\ session_details.trend = "bearish" <=> LastRow.Close < FirstRow.Open
        /\ session_details.trend = "flat" <=> LastRow.Close = FirstRow.Open
        /\ ( /\ Len(result_df) = 2
             /\ FirstRow.Open = 100 /\ FirstRow.Close = 105
             /\ LastRow.Open = 105 /\ LastRow.Close = 103 ) =>
               /\ session_details.trend = "bullish"
               /\ session_details.bullish_candles = 1
               /\ session_details.bearish_candles = 1

C17_Witness ==
    /\ Aggregated
    /\ Len(result_df) = 2
    /\ FirstRow.Open = 100 /\ FirstRow.Close = 105
    /\ LastRow.Open = 105 /\ LastRow.Close = 103
    /\ session_details.trend = "bullish"

\* the rows of the slice that satisfy Is
Count(Is(_)) == Cardinality({i \in 1..Len(result_df) : Is(result_df[i])})

\* C18: every row of the slice is counted in exactly one of bullish_candles
\* (close above open), bearish_candles (close below open) and
\* neutral_candles (close equal to open); the three counts add up to the
\* number of rows.
C18_CandleCountsPartitionRows ==
    Aggregated =>
        /\ session_details.bullish_candles + session_details.bearish_candles
              + session_details.neutral_candles = Len(result_df)
        /\ session_details.bullish_candles = Count(LAMBDA r : r.Close > r.Open)
        /\ session_details.bearish_candles = Count(LAMBDA r : r.Close < r.Open)
        /\ session_details.neutral_candles = Count(LAMBDA r : r.Close = r.Open)

C18_Witness ==
    /\ Aggregated
    /\ session_details.bullish_candles = 1
    /\ session_details.bearish_candles = 1
    /\ session_details.neutral_candles = 1

----------------------------------------------------------------------------
(* Properties of the definition object, checked under SpecDefinition *)

\* C21: constructing a SessionDefinition with a zone name that is not a
\* known zone fails at once with an error raised to the caller and yields no
\* object; every object the constructor yields names a known zone.
C21_UnknownZoneFailsAtConstruction ==
    /\ pc = "raised" =>
          /\ raised
          /\ session_def = NoDefinition
          /\ constructor_args.exchange_timezone \in UnknownZoneNames
    /\ pc = "constructed" =>
          /\ ~raised
          /\ session_def = constructor_args
          /\ session_def.exchange_timezone \in ZoneNames
    /\ (pc # "unconstructed" /\ constructor_args.exchange_timezone \notin ZoneNames)
          => pc = "raised"

C21_Witness ==
    /\ pc = "raised"
    /\ raised
    /\ constructor_args.exchange_timezone = "Europe/Atlantis"
    /\ session_def = NoDefinition

\* C22: a SessionDefinition is immutable after construction: in every state
\* its name, exchange_timezone, local_start_time and local_end_time are the
\* values it was constructed with, and every resolution is made with the
\* zone that was validated at construction.
C22_FieldsAsConstructed ==
    pc \in {"constructed", "in_use"} =>
        /\ session_def = constructor_args
        /\ boundaries.kind # "UnknownTimeZoneError"


----------------------------------------------------------------------------
(* Properties of the cache policy, checked under SpecCache *)

\* the last call found a file it could use: force_refresh off, a cache file,
\* readable and not stale
CacheHit ==
    /\ ~last_call.force_refresh
    /\ last_call.cache_before.exists
    /\ ~last_call.refetch

\* the next call without force_refresh, the file being readable and not
\* stale, returns the series without calling the data source, whatever the
\* data source would answer
NextCallReturnsFromCache(series) ==
    \A fetched \in SourceFrames, write_ok \in BOOLEAN :
        LET next == get_data(cache, fetched, FALSE, FALSE, write_ok)
        IN /\ ~next.called_source
           /\ next.data = series

\* a hit returns the cached series and does not call the data source
HitServedFromCache ==
    CacheHit =>
        /\ ~last_call.called_source
        /\ last_call.returned = ReadParquet(last_call.cache_before)
        /\ cache = last_call.cache_before

\* a call with no cache file or with force_refresh calls the data source
MissCallsSource ==
    (~last_call.cache_before.exists \/ last_call.force_refresh) =>
        /\ last_call.called_source
        /\ last_call.returned = last_call.fetched

C25_EmptyFetchLeavesCache ==
    /\ cache.exists => cache.rows # <<>>
    /\ (last_call.made /\ last_call.called_source
            /\ last_call.fetched.rows = <<>>)
          => /\ last_call.returned.rows = <<>>
             /\ last_call.returned = last_call.fetched
             /\ cache = last_call.cache_before
             /\ last_call.cache_before.exists
                  => NextCallReturnsFromCache(ReadParquet(last_call.cache_before))

\* a forced call over an existing file got an empty series
C25_Witness ==
    /\ last_call.made
    /\ last_call.force_refresh
    /\ last_call.write_ok
    /\ last_call.cache_before.exists
    /\ last_call.called_source
    /\ last_call.fetched.rows = <<>>
    /\ cache.exists

====
